---- MODULE Spec2Model ----
(***************************************************************************)
(* A state-machine model of the illust-salmap training pipeline:           *)
(*   - the paired-sample catalogs (dataset/imp1k.py, dataset/salicon.py),  *)
(*   - the sample loader (__getitem__ of both datasets),                   *)
(*   - the epoch runner and fit controller (training/train.py),            *)
(*   - the Lightning module's steps and snapshot hooks                     *)
(*     (models/saliency_model.py).                                         *)
(***************************************************************************)
EXTENDS Integers, Sequences, FiniteSets, TLC

(***************************************************************************)
(* Bounds of the model.                                                    *)
(***************************************************************************)
\* longest category list passed to a dataset constructor
MaxCats == 2
\* calls of cache_image_map_paths after the constructor's own
MaxRebuilds == 2
\* longest dataloader, in batches
MaxBatches == 2
\* passes started by a script calling train.py, or by a trainer
MaxPasses == 2
\* largest epochs argument of fit
MaxEpochs == 2
\* number of distinct parameter values of the stand-in network
ParamValues == 3

None == "None"

Min(a, b) == IF a <= b THEN a ELSE b

VARIABLES
    \* ---- datasets (imp1k.py, salicon.py)
    variant,                        \* which Dataset class is constructed
    fs_images,                      \* files of the image directory of each category
    fs_maps,                        \* files of the map directory of each category
    categories_arg,                 \* the constructor's categories argument (a list, or None)
    image_transform,                \* self.image_transform
    map_transform,                  \* self.map_transform
    ds_pc,                          \* "new" before __init__, "ready" after
    categories,                     \* self.categories
    image_map_pair_cache,           \* self.image_map_pair_cache
    cache_image_map_paths_cashed,   \* self.cache_image_map_paths_cashed (imp1k only)
    n_rebuilds,                     \* calls of cache_image_map_paths after __init__
    loaded,                         \* what the last __getitem__ returned or raised
    \* ---- the network and its optimizer (shared by train.py and SaliencyModel)
    params,                         \* the parameters of the network
    grad,                           \* the accumulated .grad of the parameters
    training,                       \* Module.training, set by model.train() / model.eval()
    n_backward,                     \* calls of backward so far
    n_step,                         \* calls of optimizer.step so far
    \* ---- epoch runner (train.py: train, validation, test, visualize)
    train_loader,                   \* datamodule.train_dataloader()
    val_loader,                     \* datamodule.val_dataloader()
    run_pc,                         \* "idle", or "loop" inside a pass
    run_fn,                         \* the function of the current or last pass
    run_loader,                     \* its dataloader argument
    batch_idx,                      \* batches of the pass processed so far
    epoch_loss,                     \* the local epoch_loss
    losses_seen,                    \* loss.item() of each batch of the pass, in order
    result,                         \* what the last pass returned or raised
    n_passes,                       \* passes started by the script
    validation_results,             \* results of the validation passes since the last training pass
    \* ---- fit controller (train.py: fit)
    fit_pc,                         \* "off", or the statement fit is at
    epochs,                         \* the epochs argument
    epoch,                          \* the loop variable
    train_metrics,                  \* train_metrics
    val_metrics,                    \* val_metrics
    reported,                       \* the two losses last printed
    fit_log,                        \* the calls fit has made, in order
    \* ---- SaliencyModel under a Lightning trainer (saliency_model.py)
    lm_pc,                          \* "off", "idle", "step", "hook" or "failed"
    lm_split,                       \* the split of the current or last pass
    lm_loader,                      \* the batches of a pass
    lm_idx,                         \* batch_idx
    lm_passes,                      \* passes started so far
    current_epoch,                  \* self.trainer.current_epoch
    acc,                            \* the twelve metric accumulators, by split and metric
    at_step_start,                  \* the accumulators and the network when the current step began
    lm_ops,                         \* the operations the current or last step performed, in order
    lm_live,                        \* whether detached_pred / detached_ground are still held
    lm_error,                       \* the operation that raised, or "none"
    loggers,                        \* self.loggers
    snapshots,                      \* the save_image calls of the current pass
    sink                            \* the add_image calls received by the loggers

ds_vars == <<variant, fs_images, fs_maps, categories_arg, image_transform,
             map_transform, ds_pc, categories, image_map_pair_cache,
             cache_image_map_paths_cashed, n_rebuilds, loaded>>

net_vars == <<params, grad, training, n_backward, n_step>>

run_vars == <<train_loader, val_loader, run_pc, run_fn, run_loader, batch_idx,
              epoch_loss, losses_seen, result, n_passes, validation_results>>

fit_vars == <<fit_pc, epochs, epoch, train_metrics, val_metrics, reported, fit_log>>

lm_vars == <<lm_pc, lm_split, lm_loader, lm_idx, lm_passes, current_epoch, acc,
             at_step_start, lm_ops, lm_live, lm_error, loggers, snapshots, sink>>

vars == <<ds_vars, net_vars, run_vars, fit_vars, lm_vars>>

(***************************************************************************)
(* File names and paths.  A file name is <<stem, extension>>; a path is    *)
(* its directory, its category and its file name.                          *)
(***************************************************************************)
\* the stems in ascending order of Python's string comparison ("X" < "a")
StemOrder == <<"X", "a", "b", "c">>
ExtOrder == <<"jpg", "png">>

IndexIn(seq, x) == CHOOSE i \in 1..Len(seq) : seq[i] = x

Path(dir, category, name) == [dir |-> dir, category |-> category, name |-> name]

\* os.path.basename / the final path component: stem and extension
basename(p) == p.name

\* str.__lt__ on two paths of one directory
PathLess(p, q) ==
    \/ IndexIn(StemOrder, p.name[1]) < IndexIn(StemOrder, q.name[1])
    \/ /\ p.name[1] = q.name[1]
       /\ IndexIn(ExtOrder, p.name[2]) < IndexIn(ExtOrder, q.name[2])

RECURSIVE sorted(_)
sorted(S) ==
    IF S = {} THEN <<>>
    ELSE LET least == CHOOSE x \in S : \A y \in S : x = y \/ PathLess(x, y)
         IN  <<least>> \o sorted(S \ {least})

\* glob(dir/category/*.ext) over a directory listing
glob(listing, dir, category, ext) ==
    {Path(dir, category, n) : n \in {f \in listing[category] : f[2] = ext}}

zip(a, b) == [i \in 1..Min(Len(a), Len(b)) |-> <<a[i], b[i]>>]

SameBasename(pair) == basename(pair[1]) = basename(pair[2])

(***************************************************************************)
(* Imp1kDataset                                                            *)
(***************************************************************************)
Imp1kCategories_all == <<"ads", "infographics", "movie_posters", "webpages">>

\* a faulty variant of the loop body: the basename comparison left out
Imp1kPairsUnchecked(category) ==
    zip(sorted(glob(fs_images, "imgs", category, "jpg")),
        sorted(glob(fs_maps, "maps", category, "jpg")))

\* the body of the loop over categories: the pairs one category appends
Imp1kPairs(category) ==
    LET images_path_list == sorted(glob(fs_images, "imgs", category, "jpg"))
        maps_path_list == sorted(glob(fs_maps, "maps", category, "jpg"))
    IN  SelectSeq(zip(images_path_list, maps_path_list), SameBasename)

RECURSIVE Imp1kLoop(_, _)
Imp1kLoop(cache, cats) ==
    IF cats = <<>> THEN cache
    ELSE Imp1kLoop(cache \o Imp1kPairs(Head(cats)), Tail(cats))

\* cache_image_map_paths: the new pair list.  The flag is read and never set.
Imp1kCachePaths(cache, cashed, cats) ==
    IF cashed THEN cache ELSE Imp1kLoop(cache, cats)

(***************************************************************************)
(* SALICONDataset                                                          *)
(***************************************************************************)
SALICON_categories == <<"test", "train">>

\* the body of the loop over categories: every positional pair, unfiltered
SaliconPairs(category) ==
    LET images_path_list == sorted(glob(fs_images, "images", category, "jpg"))
        maps_path_list == sorted(glob(fs_maps, "maps", category, "png"))
    IN  zip(images_path_list, maps_path_list)

RECURSIVE SaliconCachePaths(_, _)
SaliconCachePaths(cache, cats) ==
    IF cats = <<>> THEN cache
    ELSE SaliconCachePaths(cache \o SaliconPairs(Head(cats)), Tail(cats))

(***************************************************************************)
(* Dataset operations                                                      *)
(***************************************************************************)
DefaultCategories == IF variant = "imp1k" THEN Imp1kCategories_all ELSE SALICON_categories

\* `categories or default`: None and the empty list are both falsy
CategoriesOr(arg) == IF arg.none \/ arg.list = <<>> THEN DefaultCategories ELSE arg.list

CachePaths(cache, cashed, cats) ==
    IF variant = "imp1k" THEN Imp1kCachePaths(cache, cashed, cats)
    ELSE SaliconCachePaths(cache, cats)

\* __init__: store the arguments, clear the flag and the list, build the catalog
DatasetInit ==
    /\ ds_pc = "new"
    /\ categories' = CategoriesOr(categories_arg)
    /\ cache_image_map_paths_cashed' = FALSE
    /\ image_map_pair_cache' = CachePaths(<<>>, FALSE, CategoriesOr(categories_arg))
    /\ ds_pc' = "ready"
    /\ UNCHANGED <<variant, fs_images, fs_maps, categories_arg, image_transform,
                   map_transform, n_rebuilds, loaded>>
    /\ UNCHANGED <<net_vars, run_vars, fit_vars, lm_vars>>

\* a further call of cache_image_map_paths on the constructed dataset
CacheImageMapPaths ==
    /\ ds_pc = "ready"
    /\ n_rebuilds < MaxRebuilds
    /\ n_rebuilds' = n_rebuilds + 1
    /\ image_map_pair_cache' =
           CachePaths(image_map_pair_cache, cache_image_map_paths_cashed, categories)
    /\ UNCHANGED <<variant, fs_images, fs_maps, categories_arg, image_transform,
                   map_transform, ds_pc, categories, cache_image_map_paths_cashed,
                   loaded>>
    /\ UNCHANGED <<net_vars, run_vars, fit_vars, lm_vars>>

(***************************************************************************)
(* Sample loader: __getitem__                                              *)
(***************************************************************************)
\* Image.open(path), optionally followed by .convert(mode)
Open(path, mode) == [file |-> path, mode |-> mode, transforms |-> <<>>]

\* calling a configured transform on an image
Apply(transform, image) ==
    [image EXCEPT !.transforms = Append(@, transform)]

\* a faulty variant: no fallback to image_transform
Imp1kTargetNoFallback(map_image) ==
    IF map_transform # None THEN Apply(map_transform, map_image) ELSE map_image

\* imp1k.py: map_transform, else image_transform, else unchanged
Imp1kTarget(map_image) ==
    IF map_transform # None THEN Apply(map_transform, map_image)
    ELSE IF image_transform # None THEN Apply(image_transform, map_image)
    ELSE map_image

Imp1kGetItem(index) ==
    LET image_path == image_map_pair_cache[index + 1][1]
        map_path == image_map_pair_cache[index + 1][2]
        image == Open(image_path, "native")
        map_image == Open(map_path, "native")
    IN  [status |-> "ok", index |-> index,
         image |-> IF image_transform # None THEN Apply(image_transform, image)
                   ELSE image,
         map |-> Imp1kTarget(map_image)]

\* salicon.py: the target is transformed only inside `if image_transform`
SaliconTarget(map_image) ==
    IF image_transform # None
    THEN IF map_transform # None THEN Apply(map_transform, map_image)
         ELSE Apply(image_transform, map_image)
    ELSE map_image

SaliconGetItem(index) ==
    LET image_path == image_map_pair_cache[index + 1][1]
        map_path == image_map_pair_cache[index + 1][2]
        image == Open(image_path, "RGB")
        map_image == Open(map_path, "L")
    IN  [status |-> "ok", index |-> index,
         image |-> IF image_transform # None THEN Apply(image_transform, image)
                   ELSE image,
         map |-> SaliconTarget(map_image)]

\* __getitem__(index) for 0 <= index <= len: the last index is out of range
GetItem ==
    /\ ds_pc = "ready"
    /\ \E index \in 0..Len(image_map_pair_cache) :
          loaded' = IF index >= Len(image_map_pair_cache)
                    THEN [status |-> "IndexError", index |-> index]
                    ELSE IF variant = "imp1k" THEN Imp1kGetItem(index)
                    ELSE SaliconGetItem(index)
    /\ UNCHANGED <<variant, fs_images, fs_maps, categories_arg, image_transform,
                   map_transform, ds_pc, categories, image_map_pair_cache,
                   cache_image_map_paths_cashed, n_rebuilds>>
    /\ UNCHANGED <<net_vars, run_vars, fit_vars, lm_vars>>

(***************************************************************************)
(* States of the parts a specification leaves out                          *)
(***************************************************************************)
NoResult == [status |-> "none"]

NetIdle ==
    /\ params = 0 /\ grad = 0 /\ training = TRUE
    /\ n_backward = 0 /\ n_step = 0

RunnerOff ==
    /\ train_loader = <<>> /\ val_loader = <<>>
    /\ run_pc = "off" /\ run_fn = "none" /\ run_loader = <<>>
    /\ batch_idx = 0 /\ epoch_loss = 0 /\ losses_seen = <<>>
    /\ result = NoResult /\ n_passes = 0 /\ validation_results = <<>>

FitOff ==
    /\ fit_pc = "off" /\ epochs = 0 /\ epoch = 0
    /\ train_metrics = NoResult /\ val_metrics = NoResult
    /\ reported = <<>> /\ fit_log = <<>>

Splits == {"train", "validation", "test"}

\* the four metrics, in the order the steps convert and update them
Metrics == <<"kl_div", "sim", "scc", "auroc">>

MetricSet == {Metrics[i] : i \in 1..Len(Metrics)}

\* the accumulators as constructed: nothing ingested
NewAccumulators == [split \in Splits |-> [m \in MetricSet |-> <<>>]]

StepStart == [acc |-> acc, params |-> params, n_backward |-> n_backward,
              n_step |-> n_step]

LightningOff ==
    /\ lm_pc = "off" /\ lm_split = "none" /\ lm_loader = <<>> /\ lm_idx = 0
    /\ lm_passes = 0 /\ current_epoch = 0 /\ acc = NewAccumulators
    /\ at_step_start = [acc |-> NewAccumulators, params |-> 0, n_backward |-> 0,
                        n_step |-> 0]
    /\ lm_ops = <<>> /\ lm_live = FALSE /\ lm_error = "none"
    /\ loggers = <<>> /\ snapshots = <<>> /\ sink = <<>>

DatasetOff ==
    /\ variant = "imp1k"
    /\ fs_images = [c \in {} |-> {}] /\ fs_maps = [c \in {} |-> {}]
    /\ categories_arg = [none |-> TRUE, list |-> <<>>]
    /\ image_transform = None /\ map_transform = None
    /\ ds_pc = "off" /\ categories = <<>> /\ image_map_pair_cache = <<>>
    /\ cache_image_map_paths_cashed = FALSE /\ n_rebuilds = 0
    /\ loaded = [status |-> "none"]

(***************************************************************************)
(* Inputs of the dataset specifications                                    *)
(***************************************************************************)
Categories == {"ads", "infographics", "movie_posters", "webpages", "test", "train"}

\* the two categories whose directories hold files, per dataset
Populated(v) == IF v = "imp1k" THEN <<"ads", "infographics">> ELSE <<"test", "train">>

\* categories a caller may name
ArgCategories(v) ==
    IF v = "imp1k" THEN {"ads", "infographics", "webpages"} ELSE {"test", "train"}

ImageStems(k) == IF k = 1 THEN {"a", "b", "c"} ELSE {"a", "b"}
MapStems(k) == IF k = 1 THEN {"X", "a", "c"} ELSE {"X", "a"}
MapExt(v) == IF v = "imp1k" THEN "jpg" ELSE "png"

Listing(v, first, second, ext) ==
    [c \in Categories |->
        IF c = Populated(v)[1] THEN {<<s, ext>> : s \in first}
        ELSE IF c = Populated(v)[2] THEN {<<s, ext>> : s \in second}
        ELSE {}]

SeqsUpTo(S, n) == UNION {[1..k -> S] : k \in 0..n}

\* the categories argument left at its default, None
NoCategories == [none |-> TRUE, list |-> <<>>]

InitDataset(with_args, image_transforms, map_transforms) ==
    /\ variant \in {"imp1k", "salicon"}
    /\ \E i1 \in SUBSET ImageStems(1), i2 \in SUBSET ImageStems(2) :
          fs_images = Listing(variant, i1, i2, "jpg")
    /\ \E m1 \in SUBSET MapStems(1), m2 \in SUBSET MapStems(2) :
          fs_maps = Listing(variant, m1, m2, MapExt(variant))
    /\ categories_arg \in
          {NoCategories} \cup
          (IF with_args
           THEN {[none |-> FALSE, list |-> l] : l \in SeqsUpTo(ArgCategories(variant), MaxCats)}
           ELSE {})
    /\ image_transform \in image_transforms
    /\ map_transform \in map_transforms
    /\ ds_pc = "new"
    /\ categories = <<>>
    /\ image_map_pair_cache = <<>>
    /\ cache_image_map_paths_cashed = FALSE
    /\ n_rebuilds = 0
    /\ loaded = [status |-> "none"]
    /\ NetIdle /\ RunnerOff /\ FitOff /\ LightningOff

InitCatalog == InitDataset(TRUE, {None}, {None})

NextCatalog == DatasetInit \/ CacheImageMapPaths

\* the catalog builders: construction, then repeated build requests
SpecCatalog == InitCatalog /\ [][NextCatalog]_vars

InitLoader == InitDataset(FALSE, {None, "T_image"}, {None, "T_map"})

NextLoader == DatasetInit \/ GetItem

\* the sample loader: construction, then item accesses
SpecLoader == InitLoader /\ [][NextLoader]_vars

(***************************************************************************)
(* Properties of the catalogs                                              *)
(***************************************************************************)
RECURSIVE Sum(_)
Sum(seq) == IF seq = <<>> THEN 0 ELSE Head(seq) + Sum(Tail(seq))

\* the sorted listings a builder pairs for one category
ImageListing(category) ==
    sorted(glob(fs_images, IF variant = "imp1k" THEN "imgs" ELSE "images",
                category, "jpg"))
MapListing(category) ==
    sorted(glob(fs_maps, "maps", category, MapExt(variant)))

Positions(category) ==
    1..Min(Len(ImageListing(category)), Len(MapListing(category)))

\* positions at which the sorted image and the sorted map have equal basenames
EqualPositions(category) ==
    {i \in Positions(category) :
        basename(ImageListing(category)[i]) = basename(MapListing(category)[i])}

FirstBuildDone == ds_pc = "ready" /\ n_rebuilds = 0

Samples == {image_map_pair_cache[k] : k \in 1..Len(image_map_pair_cache)}

File(stem, dir, category, ext) == Path(dir, category, <<stem, ext>>)

\* the listings of the example: images a, b, c and maps a, X, c in one category
ExampleListings ==
    /\ variant = "imp1k"
    /\ categories = <<"ads">>
    /\ fs_images["ads"] = {<<"a", "jpg">>, <<"b", "jpg">>, <<"c", "jpg">>}
    /\ fs_maps["ads"] = {<<"a", "jpg">>, <<"X", "jpg">>, <<"c", "jpg">>}

\* C1 as stated: after the first build by either builder every stored Sample
\* has equal basenames, the catalog length is the number of filename-equal
\* positions summed over the categories, and the example listings give
\* exactly [(a, a), (c, c)].
C1_Original ==
    FirstBuildDone =>
        /\ \A sample \in Samples : basename(sample[1]) = basename(sample[2])
        /\ Len(image_map_pair_cache) =
               Sum([k \in 1..Len(categories) |->
                       Cardinality(EqualPositions(categories[k]))])
        /\ ExampleListings =>
               image_map_pair_cache =
                   << <<File("a", "imgs", "ads", "jpg"), File("a", "maps", "ads", "jpg")>>,
                      <<File("c", "imgs", "ads", "jpg"), File("c", "maps", "ads", "jpg")>> >>

\* C1 amended: after the first build, the Imp1k catalog holds only pairs of
\* equal basenames and its length is the number of filename-equal positions
\* summed over the categories; the SALICON catalog holds every positional
\* pair of the two sorted listings, unchecked, so its length is the sum of
\* min(#images, #maps).  Surplus and (Imp1k) mismatched files are dropped.
\* Listings are sorted by code point ("X" < "a"), so the example listings
\* give exactly [(c, c)].
C1_Amended ==
    FirstBuildDone =>
        /\ variant = "imp1k" =>
              /\ \A sample \in Samples : basename(sample[1]) = basename(sample[2])
              /\ Len(image_map_pair_cache) =
                     Sum([k \in 1..Len(categories) |->
                             Cardinality(EqualPositions(categories[k]))])
              /\ \A k \in 1..Len(categories) : \A i \in EqualPositions(categories[k]) :
                     <<ImageListing(categories[k])[i], MapListing(categories[k])[i]>>
                         \in Samples
        /\ variant = "salicon" =>
              /\ Len(image_map_pair_cache) =
                     Sum([k \in 1..Len(categories) |->
                             Cardinality(Positions(categories[k]))])
              /\ \A k \in 1..Len(categories) : \A i \in Positions(categories[k]) :
                     <<ImageListing(categories[k])[i], MapListing(categories[k])[i]>>
                         \in Samples
        /\ ExampleListings =>
               image_map_pair_cache =
                   << <<File("c", "imgs", "ads", "jpg"), File("c", "maps", "ads", "jpg")>> >>

\* the example listings, built: two positional pairs dropped, one kept
C1_Witness ==
    /\ FirstBuildDone
    /\ ExampleListings
    /\ Len(image_map_pair_cache) = 1

\* C2 as stated: once the constructor has built the catalog, a further call
\* of cache_image_map_paths leaves the pair list as it was.
C2_Idempotent ==
    [][ds_pc = "ready" => image_map_pair_cache' = image_map_pair_cache]_vars

(***************************************************************************)
(* Properties of the sample loader                                         *)
(***************************************************************************)
Applied(transform) == IF transform # None THEN <<transform>> ELSE <<>>

\* map_transform, else image_transform, else nothing
Resolved ==
    IF map_transform # None THEN <<map_transform>> ELSE Applied(image_transform)

\* C3 as stated: in both datasets the input gets image_transform if configured
\* and the target gets map_transform, else image_transform, else nothing.
C3_Original ==
    loaded.status = "ok" =>
        /\ loaded.image.transforms = Applied(image_transform)
        /\ loaded.map.transforms = Resolved

\* C3 amended: the input gets image_transform if configured.  In Imp1kDataset
\* the target gets map_transform, else image_transform, else nothing.  In
\* SALICONDataset the target is transformed only when image_transform is
\* configured (by map_transform if configured, else by image_transform); with
\* no image_transform the target passes through unchanged even when
\* map_transform is configured.
C3_Amended ==
    loaded.status = "ok" =>
        /\ loaded.image.file = image_map_pair_cache[loaded.index + 1][1]
        /\ loaded.map.file = image_map_pair_cache[loaded.index + 1][2]
        /\ loaded.image.transforms = Applied(image_transform)
        /\ variant = "imp1k" => loaded.map.transforms = Resolved
        /\ variant = "salicon" =>
               loaded.map.transforms =
                   IF image_transform = None THEN <<>> ELSE Resolved

\* a SALICON sample loaded with only map_transform configured
C3_Witness ==
    /\ loaded.status = "ok"
    /\ variant = "salicon"
    /\ image_transform = None
    /\ map_transform # None
    /\ loaded.map.transforms = <<>>

(***************************************************************************)
(* The network, the criterion and the optimizer.  They are collaborators   *)
(* of the pipeline (a Module, a loss Module, an Optimizer); the model      *)
(* gives them small deterministic stand-ins over integers.                 *)
(***************************************************************************)
\* a batch is (image, ground_truth)
BatchValues == {[image |-> 0, ground_truth |-> 1], [image |-> 1, ground_truth |-> 0]}

Loaders == SeqsUpTo(BatchValues, MaxBatches)

\* predict = model(image)
Forward(p, image) == (p + image) % ParamValues

\* loss = criterion(predict, ground_truth); loss.item()
Criterion(predict, ground_truth) ==
    (predict - ground_truth) * (predict - ground_truth)

\* what loss.backward() adds to .grad
Gradient(p, batch) == Forward(p, batch.image) - batch.ground_truth

\* optimizer.step()
Step(p, g) == (p - g) % ParamValues

(***************************************************************************)
(* Epoch runner: train, validation, test, visualize (train.py)             *)
(***************************************************************************)
\* a faulty variant: `=` in place of `+=`
AccumulateLast(total, loss) == loss

\* epoch_loss += loss.item()
Accumulate(total, loss) == total + loss

\* a faulty variant: an empty dataloader gives a loss of zero
DivideOrZero(fn, total, n) ==
    [status |-> "returned", fn |-> fn, loss |-> <<IF n = 0 THEN 0 ELSE total, IF n = 0 THEN 1 ELSE n>>]

\* return {"loss": epoch_loss / len(dataloader)}: the quotient total/n is kept
\* as the pair <<total, n>>; a float divided by the int 0 raises
Divide(fn, total, n) ==
    IF n = 0 THEN [status |-> "raised", fn |-> fn, error |-> "ZeroDivisionError"]
    ELSE [status |-> "returned", fn |-> fn, loss |-> <<total, n>>]

NetState == [params |-> params, grad |-> grad, n_backward |-> n_backward,
             n_step |-> n_step, epoch_loss |-> epoch_loss, loss |-> 0]

\* the body of train's loop: zero_grad, forward, loss, backward, step
TrainBatchEffect(st, batch) ==
    LET cleared == 0
        predict == Forward(st.params, batch.image)
        loss == Criterion(predict, batch.ground_truth)
        g == cleared + Gradient(st.params, batch)
    IN  [params |-> Step(st.params, g), grad |-> g,
         n_backward |-> st.n_backward + 1, n_step |-> st.n_step + 1,
         epoch_loss |-> Accumulate(st.epoch_loss, loss), loss |-> loss]

\* a faulty variant: the training body in an evaluation loop
EvalBatchEffectWithStep(st, batch) == TrainBatchEffect(st, batch)

\* the body of validation's and test's loop, under torch.no_grad
EvalBatchEffect(st, batch) ==
    LET predict == Forward(st.params, batch.image)
        loss == Criterion(predict, batch.ground_truth)
    IN  [st EXCEPT !.epoch_loss = Accumulate(st.epoch_loss, loss), !.loss = loss]

\* who may call a function of train.py now: a script, or fit at that statement
CanCall(fn) ==
    /\ run_pc = "idle"
    /\ \/ fit_pc = "off" /\ n_passes < MaxPasses
       \/ fit_pc = fn

CallerStep(fn) ==
    /\ n_passes' = IF fit_pc = "off" THEN n_passes + 1 ELSE n_passes
    /\ fit_log' = IF fit_pc = "off" THEN fit_log
                  ELSE Append(fit_log, [ev |-> fn, epoch |-> epoch])

\* a faulty variant: the visualization pass left out
FitSkipsVisualize(fn) ==
    IF fn = "train" THEN "validation" ELSE "report"

\* the statement of fit's loop body that follows a call
FitNextPhase(fn) ==
    IF fn = "train" THEN "validation"
    ELSE IF fn = "validation" THEN "visualize"
    ELSE "report"

\* control returns to the caller with res
ReturnTo(fn, res) ==
    /\ result' = res
    /\ run_pc' = "idle"
    /\ IF fit_pc = "off" THEN UNCHANGED <<fit_pc, train_metrics, val_metrics>>
       ELSE /\ fit_pc' = IF res.status = "raised" THEN "raised" ELSE FitNextPhase(fn)
            /\ train_metrics' = IF fn = "train" /\ res.status = "returned" THEN res
                                ELSE train_metrics
            /\ val_metrics' = IF fn = "validation" /\ res.status = "returned" THEN res
                              ELSE val_metrics

\* entering train / validation / test: set the mode, epoch_loss = 0.0
Begin(fn, loader, mode) ==
    /\ CanCall(fn)
    /\ CallerStep(fn)
    /\ run_pc' = "loop"
    /\ run_fn' = fn
    /\ run_loader' = loader
    /\ training' = mode
    /\ epoch_loss' = 0
    /\ batch_idx' = 0
    /\ losses_seen' = <<>>
    /\ validation_results' = IF fn = "train" THEN <<>> ELSE validation_results
    /\ UNCHANGED <<params, grad, n_backward, n_step, train_loader, val_loader, result>>
    /\ UNCHANGED <<fit_pc, epochs, epoch, train_metrics, val_metrics, reported>>
    /\ UNCHANGED <<ds_vars, lm_vars>>

InLoop(fn) == run_pc = "loop" /\ run_fn = fn /\ batch_idx < Len(run_loader)

AtReturn(fn) == run_pc = "loop" /\ run_fn = fn /\ batch_idx = Len(run_loader)

\* one iteration of a pass, leaving the network and the sums as in st
Iterate(st) ==
    /\ params' = st.params
    /\ grad' = st.grad
    /\ n_backward' = st.n_backward
    /\ n_step' = st.n_step
    /\ epoch_loss' = st.epoch_loss
    /\ losses_seen' = Append(losses_seen, st.loss)
    /\ batch_idx' = batch_idx + 1
    /\ UNCHANGED <<training, train_loader, val_loader, run_pc, run_fn, run_loader,
                   result, n_passes, validation_results>>
    /\ UNCHANGED <<fit_vars, ds_vars, lm_vars>>

Return(fn) ==
    /\ AtReturn(fn)
    /\ ReturnTo(fn, Divide(fn, epoch_loss, Len(run_loader)))
    /\ validation_results' =
           IF fn = "validation"
           THEN Append(validation_results, Divide(fn, epoch_loss, Len(run_loader)))
           ELSE validation_results
    /\ UNCHANGED <<net_vars, train_loader, val_loader, run_fn, run_loader, batch_idx,
                   epoch_loss, losses_seen, n_passes>>
    /\ UNCHANGED <<epochs, epoch, reported, fit_log>>
    /\ UNCHANGED <<ds_vars, lm_vars>>

TrainBegin == Begin("train", train_loader, TRUE)
TrainBatch ==
    /\ InLoop("train")
    /\ Iterate(TrainBatchEffect(NetState, run_loader[batch_idx + 1]))
TrainReturn == Return("train")

ValidationBegin == Begin("validation", val_loader, FALSE)
ValidationBatch ==
    /\ InLoop("validation")
    /\ Iterate(EvalBatchEffect(NetState, run_loader[batch_idx + 1]))
ValidationReturn == Return("validation")

\* a script may test on either dataloader
TestBegin == \E loader \in {train_loader, val_loader} : Begin("test", loader, FALSE)
TestBatch ==
    /\ InLoop("test")
    /\ Iterate(EvalBatchEffect(NetState, run_loader[batch_idx + 1]))
TestReturn == Return("test")

\* visualize: next(iter(dataloader)), one forward pass under no_grad
Visualize ==
    /\ CanCall("visualize")
    /\ CallerStep("visualize")
    /\ run_fn' = "visualize"
    /\ run_loader' = val_loader
    /\ ReturnTo("visualize",
                IF val_loader = <<>>
                THEN [status |-> "raised", fn |-> "visualize", error |-> "StopIteration"]
                ELSE [status |-> "returned", fn |-> "visualize"])
    /\ UNCHANGED <<net_vars, train_loader, val_loader, batch_idx, epoch_loss,
                   losses_seen, validation_results>>
    /\ UNCHANGED <<epochs, epoch, reported>>
    /\ UNCHANGED <<ds_vars, lm_vars>>

(***************************************************************************)
(* Fit controller: fit (train.py)                                          *)
(***************************************************************************)
\* datamodule.prepare_data(); datamodule.setup("fit")
FitStart ==
    /\ fit_pc = "start"
    /\ fit_log' = fit_log \o <<[ev |-> "prepare_data", epoch |-> 0],
                               [ev |-> "setup", epoch |-> 0]>>
    /\ epoch' = 0
    /\ fit_pc' = "head"
    /\ UNCHANGED <<epochs, train_metrics, val_metrics, reported>>
    /\ UNCHANGED <<ds_vars, net_vars, run_vars, lm_vars>>

\* for epoch in range(epochs): the next iteration, or the end of the loop
FitEpochHead ==
    /\ fit_pc = "head"
    /\ fit_pc' = IF epoch < epochs THEN "train" ELSE "done"
    /\ UNCHANGED <<epochs, epoch, train_metrics, val_metrics, reported, fit_log>>
    /\ UNCHANGED <<ds_vars, net_vars, run_vars, lm_vars>>

\* the two prints that end the loop body
FitReport ==
    /\ fit_pc = "report"
    /\ reported' = <<train_metrics.loss, val_metrics.loss>>
    /\ fit_log' = Append(fit_log, [ev |-> "report", epoch |-> epoch])
    /\ epoch' = epoch + 1
    /\ fit_pc' = "head"
    /\ UNCHANGED <<epochs, train_metrics, val_metrics>>
    /\ UNCHANGED <<ds_vars, net_vars, run_vars, lm_vars>>

(***************************************************************************)
(* Specifications of train.py                                              *)
(***************************************************************************)
InitNet ==
    /\ params \in 0..(ParamValues - 1)
    /\ grad = 0 /\ training = TRUE /\ n_backward = 0 /\ n_step = 0

InitLoaders ==
    /\ train_loader \in Loaders /\ val_loader \in Loaders
    /\ run_pc = "idle" /\ run_fn = "none" /\ run_loader = <<>>
    /\ batch_idx = 0 /\ epoch_loss = 0 /\ losses_seen = <<>>
    /\ result = NoResult /\ n_passes = 0 /\ validation_results = <<>>

InitRunner == DatasetOff /\ InitNet /\ InitLoaders /\ FitOff /\ LightningOff

NextRunner ==
    \/ TrainBegin \/ TrainBatch \/ TrainReturn
    \/ ValidationBegin \/ ValidationBatch \/ ValidationReturn
    \/ TestBegin \/ TestBatch \/ TestReturn

\* a script calling train, validation and test in any order
SpecRunner == InitRunner /\ [][NextRunner]_vars

InitFit ==
    /\ DatasetOff /\ InitNet /\ InitLoaders /\ LightningOff
    /\ fit_pc = "start" /\ epochs \in 0..MaxEpochs /\ epoch = 0
    /\ train_metrics = NoResult /\ val_metrics = NoResult
    /\ reported = <<>> /\ fit_log = <<>>

NextFit ==
    \/ FitStart \/ FitEpochHead \/ FitReport
    \/ TrainBegin \/ TrainBatch \/ TrainReturn
    \/ ValidationBegin \/ ValidationBatch \/ ValidationReturn
    \/ Visualize

\* one call of fit
SpecFit == InitFit /\ [][NextFit]_vars

(***************************************************************************)
(* Properties of the epoch runner                                          *)
(***************************************************************************)
PassFunctions == {"train", "validation", "test"}

\* a pass of train, validation or test has ended and nothing was called since
PassEnded ==
    /\ run_pc = "idle"
    /\ result.status # "none"
    /\ result.fn \in PassFunctions

\* C6: a pass over an empty dataloader ends in an error (the division by
\* len(dataloader) == 0 raises), never in a returned result; and no returned
\* result is a quotient by zero.
C6_ZeroBatches ==
    PassEnded =>
        /\ Len(run_loader) = 0 =>
               result.status = "raised" /\ result.error = "ZeroDivisionError"
        /\ result.status = "returned" => Len(run_loader) >= 1 /\ result.loss[2] >= 1

\* a validation pass over an empty dataloader has raised
C6_Witness ==
    /\ PassEnded
    /\ result.fn = "validation"
    /\ Len(run_loader) = 0
    /\ result.status = "raised"

\* C7: a pass over N >= 1 batches returns (L1 + ... + LN) / N, where the Li
\* are the losses of the N batches of this pass, each counted once, and
\* nothing of an earlier pass is carried over.
C7_MeanLoss ==
    (PassEnded /\ result.status = "returned") =>
        /\ Len(losses_seen) = Len(run_loader)
        /\ result.loss = <<Sum(losses_seen), Len(run_loader)>>
        /\ result.fn # "train" =>
               \A i \in 1..Len(run_loader) :
                   losses_seen[i] =
                       Criterion(Forward(params, run_loader[i].image),
                                 run_loader[i].ground_truth)

\* a second pass over two batches of non-zero loss has returned
C7_Witness ==
    /\ PassEnded
    /\ result.status = "returned"
    /\ n_passes >= 2
    /\ Len(run_loader) = 2
    /\ losses_seen[1] > 0 /\ losses_seen[2] > 0

(***************************************************************************)
(* Properties of the fit controller                                        *)
(***************************************************************************)
LoopBody == <<"train", "validation", "visualize", "report">>

\* what fit(epochs = n) does when no call raises
ExpectedLog(n) ==
    [i \in 1..(2 + 4 * n) |->
        IF i = 1 THEN [ev |-> "prepare_data", epoch |-> 0]
        ELSE IF i = 2 THEN [ev |-> "setup", epoch |-> 0]
        ELSE [ev |-> LoopBody[((i - 3) % 4) + 1], epoch |-> (i - 3) \div 4]]

\* C8: fit prepares the data once, then runs the loop body `epochs` times:
\* train, validation, visualize, report of both mean losses, in this order
\* with nothing skipped; it ends only after the last iteration, unless a call
\* raises.
C8_FitOrder ==
    /\ Len(fit_log) <= 2 + 4 * epochs
    /\ \A i \in 1..Len(fit_log) : fit_log[i] = ExpectedLog(epochs)[i]
    /\ fit_pc = "done" => fit_log = ExpectedLog(epochs)
    /\ fit_pc = "raised" => result.status = "raised"
    /\ (fit_pc \in {"head", "done"} /\ epoch >= 1) =>
           reported = <<train_metrics.loss, val_metrics.loss>>
    /\ fit_pc \notin {"off", "done", "raised"} => ENABLED NextFit

\* fit(epochs = 2) has returned
C8_Witness ==
    /\ fit_pc = "done"
    /\ epochs = 2
    /\ Len(fit_log) = 10
    /\ n_step = Len(train_loader) * 2

(***************************************************************************)
(* SaliencyModel: training_step, validation_step, test_step                *)
(* (saliency_model.py).  A step is a fixed sequence of operations; each is *)
(* applied to the step's local state, and any operation on tensors may     *)
(* raise, which ends the step (and the run) with the state reached so far. *)
(***************************************************************************)
\* convert_kl_div / convert_sim / convert_scc / convert_auroc: a pure function
\* of (prediction, ground truth) into the representation its metric takes
Convert(metric, pred, ground) == [metric |-> metric, pred |-> pred, ground |-> ground]

NotConverted == [metric |-> "none", pred |-> 0, ground |-> 0]

\* a faulty variant: gradients cleared after backward instead of before
TrainingStepOpsBackwardFirst ==
    <<"forward", "criterion", "backward", "zero_grad", "detach",
      "convert_kl_div", "convert_sim", "convert_scc", "convert_auroc",
      "update_kl_div", "update_sim", "update_scc", "update_auroc",
      "log", "step", "del">>

\* training_step, statement by statement
TrainingStepOps ==
    <<"zero_grad", "forward", "criterion", "detach",
      "convert_kl_div", "convert_sim", "convert_scc", "convert_auroc",
      "update_kl_div", "update_sim", "update_scc", "update_auroc",
      "log", "backward", "step", "del">>

\* validation_step and test_step, statement by statement
EvalStepOps ==
    <<"forward", "criterion", "detach",
      "convert_kl_div", "convert_sim", "convert_scc", "convert_auroc",
      "update_kl_div", "update_sim", "update_scc", "update_auroc",
      "log", "del">>

ValidationStepOps == EvalStepOps

TestStepOps == EvalStepOps

\* operations that compute on tensors, which a malformed batch makes raise
Fallible ==
    {"forward", "criterion", "backward", "step"}
        \cup {"convert_" \o Metrics[i] : i \in 1..Len(Metrics)}
        \cup {"update_" \o Metrics[i] : i \in 1..Len(Metrics)}

\* the local state a step of `split` begins with
LocalState(split) ==
    [params |-> params, grad |-> grad, n_backward |-> n_backward, n_step |-> n_step,
     predict |-> 0, loss |-> 0, live |-> FALSE,
     detached |-> [pred |-> 0, ground |-> 0],
     conv |-> [m \in MetricSet |-> NotConverted],
     acc |-> acc[split], ops |-> <<>>]

\* the effect of one statement of a step
ApplyOp(op, st, batch) ==
    LET done == [st EXCEPT !.ops = Append(@, op)]
    IN  CASE op = "zero_grad" -> [done EXCEPT !.grad = 0]
          [] op = "forward" -> [done EXCEPT !.predict = Forward(st.params, batch.image)]
          [] op = "criterion" ->
                [done EXCEPT !.loss = Criterion(st.predict, batch.ground_truth)]
          [] op = "detach" ->
                [done EXCEPT !.live = TRUE,
                             !.detached = [pred |-> st.predict,
                                           ground |-> batch.ground_truth]]
          [] \E m \in MetricSet : op = "convert_" \o m ->
                LET m == CHOOSE x \in MetricSet : op = "convert_" \o x
                IN  [done EXCEPT !.conv[m] =
                        Convert(m, st.detached.pred, st.detached.ground)]
          [] \E m \in MetricSet : op = "update_" \o m ->
                LET m == CHOOSE x \in MetricSet : op = "update_" \o x
                IN  [done EXCEPT !.acc[m] = Append(@, st.conv[m])]
          [] op = "log" -> done
          [] op = "backward" ->
                [done EXCEPT !.grad = @ + Gradient(st.params, batch),
                             !.n_backward = @ + 1]
          [] op = "step" ->
                [done EXCEPT !.params = Step(@, st.grad), !.n_step = @ + 1]
          [] op = "del" -> [done EXCEPT !.live = FALSE]

\* the first k statements of a step
RECURSIVE RunOps(_, _, _, _)
RunOps(ops, k, st, batch) ==
    IF k = 0 THEN st
    ELSE ApplyOp(ops[k], RunOps(ops, k - 1, st, batch), batch)

\* a step function called by the trainer on batch lm_idx: it runs to its end,
\* or one of its fallible statements raises
LmStep(split, ops) ==
    /\ lm_pc = "step"
    /\ lm_split = split
    /\ lm_idx < Len(lm_loader)
    /\ \E fail_at \in 0..Len(ops) :
          /\ IF fail_at = 0 THEN TRUE ELSE ops[fail_at] \in Fallible
          /\ \E st \in {RunOps(ops, IF fail_at = 0 THEN Len(ops) ELSE fail_at - 1,
                                 LocalState(split), lm_loader[lm_idx + 1])} :
                 /\ params' = st.params
                 /\ grad' = st.grad
                 /\ n_backward' = st.n_backward
                 /\ n_step' = st.n_step
                 /\ acc' = [acc EXCEPT ![split] = st.acc]
                 /\ lm_ops' = st.ops
                 /\ lm_live' = st.live
                 /\ lm_error' = IF fail_at = 0 THEN "none" ELSE ops[fail_at]
                 /\ lm_pc' = IF fail_at = 0 THEN "hook" ELSE "failed"
    /\ at_step_start' = StepStart
    /\ UNCHANGED <<training, lm_split, lm_loader, lm_idx, lm_passes, current_epoch,
                   loggers, snapshots, sink>>
    /\ UNCHANGED <<ds_vars, run_vars, fit_vars>>

TrainingStep == LmStep("train", TrainingStepOps)

ValidationStep == LmStep("validation", ValidationStepOps)

TestStep == LmStep("test", TestStepOps)

(***************************************************************************)
(* SaliencyModel: on_*_batch_end and save_image                            *)
(***************************************************************************)
\* a faulty variant: the training snapshot taken on the first batch
TrainSnapshotDueFirst(idx, n) == idx = 0

\* on_train_batch_end: batch_idx == self.trainer.num_training_batches - 1
TrainSnapshotDue(idx, n) == idx = n - 1

\* on_validation_batch_end: batch_idx == 0
ValidationSnapshotDue(idx, n) == idx = 0

\* on_test_batch_end: batch_idx == self.trainer.num_test_batches[0] - 1
TestSnapshotDue(idx, n) == idx = n - 1

\* the stage name each hook passes to save_image
Stage(split) == IF split = "train" THEN "training" ELSE split

\* save_image: one add_image per TensorBoardLogger among self.loggers
SaveImage(stage, ep) ==
    LET tb == SelectSeq([i \in 1..Len(loggers) |-> i],
                        LAMBDA i : loggers[i] = "TensorBoardLogger")
    IN  [j \in 1..Len(tb) |->
            [logger |-> tb[j], tag |-> <<stage, "images_epoch", ep>>,
             global_step |-> ep]]

\* a batch-end hook: when due, a forward pass under no_grad and save_image
LmHook(split, due) ==
    /\ lm_pc = "hook"
    /\ lm_split = split
    /\ IF due
       THEN /\ snapshots' = Append(snapshots,
                                   [stage |-> Stage(split), epoch |-> current_epoch,
                                    batch_idx |-> lm_idx])
            /\ sink' = sink \o SaveImage(Stage(split), current_epoch)
       ELSE UNCHANGED <<snapshots, sink>>
    /\ lm_idx' = lm_idx + 1
    /\ lm_pc' = "step"
    /\ UNCHANGED <<lm_split, lm_loader, lm_passes, current_epoch, acc, at_step_start,
                   lm_ops, lm_live, lm_error, loggers>>
    /\ UNCHANGED <<ds_vars, net_vars, run_vars, fit_vars>>

OnTrainBatchEnd == LmHook("train", TrainSnapshotDue(lm_idx, Len(lm_loader)))

OnValidationBatchEnd ==
    LmHook("validation", ValidationSnapshotDue(lm_idx, Len(lm_loader)))

OnTestBatchEnd == LmHook("test", TestSnapshotDue(lm_idx, Len(lm_loader)))

(***************************************************************************)
(* The trainer: it runs passes over the batches, calling the step and then *)
(* the batch-end hook for batch_idx = 0, 1, ...                            *)
(***************************************************************************)
LmStartPass ==
    /\ lm_pc = "idle"
    /\ lm_passes < MaxPasses
    /\ \E split \in Splits :
          /\ lm_split' = split
          /\ training' = (split = "train")
    /\ lm_passes' = lm_passes + 1
    /\ lm_idx' = 0
    /\ snapshots' = <<>>
    /\ lm_pc' = "step"
    /\ UNCHANGED <<params, grad, n_backward, n_step>>
    /\ UNCHANGED <<lm_loader, current_epoch, acc, at_step_start, lm_ops, lm_live,
                   lm_error, loggers, sink>>
    /\ UNCHANGED <<ds_vars, run_vars, fit_vars>>

LmEndPass ==
    /\ lm_pc = "step"
    /\ lm_idx = Len(lm_loader)
    /\ lm_pc' = "idle"
    /\ current_epoch' = IF lm_split = "train" THEN current_epoch + 1 ELSE current_epoch
    /\ UNCHANGED <<lm_split, lm_loader, lm_idx, lm_passes, acc, at_step_start, lm_ops,
                   lm_live, lm_error, loggers, snapshots, sink>>
    /\ UNCHANGED <<ds_vars, net_vars, run_vars, fit_vars>>

LoggerSets == {<<"TensorBoardLogger">>, <<"CSVLogger", "TensorBoardLogger">>}

InitModel ==
    /\ DatasetOff /\ RunnerOff /\ FitOff /\ InitNet
    /\ lm_pc = "idle" /\ lm_split = "none" /\ lm_loader \in Loaders /\ lm_idx = 0
    /\ lm_passes = 0 /\ current_epoch = 0 /\ acc = NewAccumulators
    /\ at_step_start = StepStart
    /\ lm_ops = <<>> /\ lm_live = FALSE /\ lm_error = "none"
    /\ loggers \in LoggerSets /\ snapshots = <<>> /\ sink = <<>>

NextModel ==
    \/ LmStartPass \/ LmEndPass
    \/ TrainingStep \/ OnTrainBatchEnd
    \/ ValidationStep \/ OnValidationBatchEnd
    \/ TestStep \/ OnTestBatchEnd

\* a trainer running train, validation and test passes over a SaliencyModel
SpecModel == InitModel /\ [][NextModel]_vars

\* every validation and test pass of the repository: train.py's, called by a
\* script, or SaliencyModel's, run by a trainer
SpecNoGrad == (InitRunner \/ InitModel) /\ [][NextRunner \/ NextModel]_vars

(***************************************************************************)
(* Properties of the snapshot hooks                                        *)
(***************************************************************************)
\* the snapshots of the current pass follow a trigger policy: at most one, at
\* the batch index the policy names, and exactly one once the pass is over
FollowsPolicy(Trigger(_, _)) ==
    (lm_split # "none" /\ Len(lm_loader) >= 1) =>
        /\ Len(snapshots) <= 1
        /\ \A i \in 1..Len(snapshots) :
               /\ snapshots[i].stage = Stage(lm_split)
               /\ snapshots[i].batch_idx = Trigger(lm_split, Len(lm_loader))
        /\ lm_pc = "idle" => Len(snapshots) = 1

FinalInTrainingOnly(split, n) == IF split = "train" THEN n - 1 ELSE 0

FirstInValidationOnly(split, n) == IF split = "validation" THEN 0 ELSE n - 1

\* C4 as stated: over a pass of N >= 1 batches one snapshot is emitted, on the
\* final batch in the training split and on batch 0 in the validation and
\* test splits.
C4_Original == FollowsPolicy(FinalInTrainingOnly)

\* C4 amended: over a pass of N >= 1 batches one snapshot is emitted, on the
\* final batch (index N-1) in the training split and in the test split, and
\* on the first batch (index 0) in the validation split.
C4_Amended == FollowsPolicy(FirstInValidationOnly)

\* a test pass over two batches has ended with its snapshot taken at index 1
C4_Witness ==
    /\ lm_pc = "idle"
    /\ lm_split = "test"
    /\ Len(lm_loader) = 2
    /\ Len(snapshots) = 1
    /\ snapshots[1].batch_idx = 1

(***************************************************************************)
(* Properties of validation and test passes                                *)
(***************************************************************************)
\* the next step belongs to a validation or test pass
InEvalPass ==
    \/ run_pc = "loop" /\ run_fn \in {"validation", "test"}
    \/ lm_pc \in {"step", "hook"} /\ lm_split \in {"validation", "test"}

\* C5: no step of a validation or test pass (train.py's or SaliencyModel's)
\* calls backward or optimizer.step or changes the parameters or their
\* gradients, and validation passes with no training pass in between return
\* the same mean loss.
C5_NoParameterUpdate ==
    /\ [][InEvalPass =>
             /\ params' = params
             /\ grad' = grad
             /\ n_backward' = n_backward
             /\ n_step' = n_step]_vars
    /\ [](\A i, j \in 1..Len(validation_results) :
             validation_results[i] = validation_results[j])

\* validation has run twice in a row over two batches
C5_Witness ==
    /\ Len(validation_results) = 2
    /\ run_pc = "idle"
    /\ Len(run_loader) = 2
    /\ validation_results[2].status = "returned"
    /\ validation_results[2].loss[1] > 0

(***************************************************************************)
(* Properties of training_step                                             *)
(***************************************************************************)
\* the order of operations of a training batch, the logging calls left out
TrainOrder ==
    <<"zero_grad", "forward", "criterion", "detach",
      "convert_kl_div", "convert_sim", "convert_scc", "convert_auroc",
      "update_kl_div", "update_sim", "update_scc", "update_auroc",
      "backward", "step", "del">>

NotLog(op) == op # "log"

TrainingStepDone == lm_pc = "hook" /\ lm_split = "train"

C10_NoPartialCommit ==
    lm_pc = "failed" => acc = at_step_start.acc

====
